---- MODULE Spec2Model ----
(***************************************************************************)
(* A model of the orchestration core of the repository:                    *)
(*   - Coordinator.delegate        (src/src/multi_agent/coordinator.py)    *)
(*   - Coordinator.generate_report (src/src/multi_agent/coordinator.py)    *)
(*   - Message                 (src/src/multi_agent/message_protocol.py) *)
(*   - WorkerAgent.execute_message (src/src/multi_agent/worker_base.py)    *)
(*   - SharedState                 (src/src/multi_agent/shared_state.py)   *)
(*   - ArchitectBuilderCoordinator (src/src/memory_rag/architect_builder.py)*)
(*   - OVETestHarness              (src/src/memory_rag/ove_harness.py)     *)
(* Each component has its own specification over the shared variable list; *)
(* the variables of the other components stay at their initial values.     *)
(***************************************************************************)
EXTENDS Integers, Sequences, FiniteSets, TLC

VARIABLES
    \* ---- Coordinator.delegate ----
    worker,        \* the worker's behaviour: its reply to the n-th execute_message call
    max_retries,   \* the max_retries argument of delegate
    dpc,           \* position in delegate: "idle", "loop", "except", "done"
    attempt,       \* the for-loop variable of delegate
    last_error,    \* the local last_error of delegate
    caught,        \* the exception bound to e in the except clause
    calls,         \* number of worker.execute_message invocations so far
    waits,         \* the time.sleep durations so far, in order
    outcome,       \* how delegate ended: returned payload or raised exception
    agent,         \* agent.name of the worker delegate was given
    trace_id,      \* the trace_id argument / local of delegate
    sent,          \* the REQUEST messages delegate passed to execute_message, in order
    fresh,         \* how many Message objects and uuids have been created so far
    req_action,    \* the action argument of delegate
    req_payload,   \* the payload argument of delegate
    \* ---- Coordinator.generate_report ----
    rpc,           \* position in generate_report: "idle", a phase name, "done"
    rtrace,        \* the trace_id argument / local of generate_report
    research_findings,  \* the local research_findings
    data_analysis, \* the local data_analysis
    rcalls,        \* per phase: execute_message invocations of that phase's worker
    rwaits,        \* per phase: the time.sleep durations of its delegation, in order
    rsent,         \* the REQUEST messages of the finished delegations, in order
    rlast,         \* per phase: the payload its delegation returned, if it returned
    report,        \* how generate_report ended: returned report or raised exception
    \* ---- Message and WorkerAgent.execute_message ----
    mpc,           \* what was done last: "start", "init", "to_json", "from_json", ...
    msg,           \* the Message that was built
    wire,          \* the JSON text / dict handed to the decoder
    decoded,       \* what from_json / from_dict produced: a Message or an exception
    executed,      \* what self.execute(action, payload) did inside execute_message
    wreply,        \* what execute_message produced
    mfresh,        \* how many Message objects have been created so far
    \* ---- SharedState (one state file, several processes) ----
    disk,          \* the state file: whether it exists, its length, its content
    lock,          \* the flock each process holds on the file: "none", "sh", "ex"
    spc,           \* each process's position inside its SharedState call
    op,            \* each process's current (or last) SharedState call
    buf,           \* each process's unflushed output of json.dump
    ret,           \* each process's last value returned by get / get_all
    nops,          \* each process's number of completed calls
    init_wrote,    \* whether the process's constructor wrote the file
    read_fault,    \* how the process's last _read ended: "ok", "missing", "corrupt",
                   \* or "UnicodeDecodeError" when it raised
    before,        \* each process's call before the current one, and how its _read ended
    budget,        \* the number of calls the run makes in all
    inherited,     \* the state file as the earlier run left it
    \* ---- OVETestHarness.run ----
    hpc,           \* position in run: "idle", "observe", "validate", "evaluate", "return", "done"
    h_impl,        \* the implementation dict given to run
    h_obs,         \* the local observation
    h_val,         \* the local validation
    h_eval,        \* the local evaluation
    h_out,         \* the dict run returned
    \* ---- ArchitectBuilderCoordinator.process_request ----
    apc,             \* position in process_request / _process_task
    plan,            \* the task dicts returned by architect.plan (mutated by retries)
    idx,             \* index in plan of the task the for loop is at
    task_attempt,    \* the for-loop variable `attempt` of _process_task
    implementation,  \* the builder's artifact of the current attempt
    ove_result,      \* harness.run(implementation) of the current attempt
    result,          \* the dict _process_task returned for the current task
    results,         \* the results list of process_request
    summary,         \* the dict process_request returns
    builder_calls,   \* per task: number of builder.implement calls
    harness_calls,   \* per task: number of harness.run calls
    review_calls,    \* per task: number of architect.validate calls
    tlog             \* current task: per attempt, the artifact and the review received

dvars == <<worker, max_retries, dpc, attempt, last_error, caught, calls, waits, outcome,
           agent, trace_id, sent, fresh, req_action, req_payload>>

rvars == <<rpc, rtrace, research_findings, data_analysis, rcalls, rwaits, rsent, rlast, report>>

mvars == <<mpc, msg, wire, decoded, executed, wreply, mfresh>>

svars == <<disk, lock, spc, op, buf, ret, nops, init_wrote, read_fault, before, budget, inherited>>

avars == <<apc, plan, idx, task_attempt, implementation, ove_result, result, results,
           summary, builder_calls, harness_calls, review_calls, tlog>>

hvars == <<hpc, h_impl, h_obs, h_val, h_eval, h_out>>

vars == <<dvars, rvars, mvars, svars, avars, hvars>>

(***************************************************************************)
(* Bounds                                                                  *)
(***************************************************************************)
\* largest max_retries tried, and the length of the worker's script
MaxRetriesBound == 3

\* number of SharedState calls the processes make in all, after constructing their objects
MaxOps == 2

\* number of SharedState calls a process makes when it is the only one using the file
MaxSoloOps == 3

\* largest number of tasks architect.plan returns
MaxPlan == 2

\* largest number of functions in a piece of code given to the harness
MaxFunctions == 2

(***************************************************************************)
(* Coordinator.delegate                                                    *)
(***************************************************************************)
AgentName == agent

\* MessageType enum members, and the value of each
REQUEST == "MessageType.REQUEST"
RESPONSE == "MessageType.RESPONSE"
ERROR == "MessageType.ERROR"

MessageType == {REQUEST, RESPONSE, ERROR}

MessageTypeValue(member) ==
    CASE member = REQUEST -> "request"
      [] member = RESPONSE -> "response"
      [] member = ERROR -> "error"

\* Python values of the message fields: None, a str, and the str of a uuid4 /
\* utcnow().isoformat() made by the n-th creation for the field `part`
None == [none |-> TRUE]

Str(s) == [str |-> s]

Uuid(n, part) == [str |-> "generated", n |-> n, part |-> part]

\* bool(v) of such a value
Truthy(v) == v # None /\ v # Str("")

\* a or b
Or(a, b) == IF Truthy(a) THEN a ELSE b

\* Message.__init__: ids and timestamp are generated when the argument is falsy
Message_OwnTrace(from_agent, to_agent, message_type, payload, action, in_reply_to, trace, message_id, timestamp, n) ==
    [message_id |-> Or(message_id, Uuid(n, "message_id")),
     timestamp |-> Or(timestamp, Uuid(n, "timestamp")),
     from_agent |-> from_agent,
     to_agent |-> to_agent,
     message_type |-> message_type,
     action |-> action,
     payload |-> payload,
     in_reply_to |-> in_reply_to,
     trace_id |-> Uuid(n, "trace_id")]

Message(from_agent, to_agent, message_type, payload, action, in_reply_to, trace, message_id, timestamp, n) ==
    [message_id |-> Or(message_id, Uuid(n, "message_id")),
     timestamp |-> Or(timestamp, Uuid(n, "timestamp")),
     from_agent |-> from_agent,
     to_agent |-> to_agent,
     message_type |-> message_type,
     action |-> action,
     payload |-> payload,
     in_reply_to |-> in_reply_to,
     trace_id |-> Or(trace, Uuid(n, "trace_id"))]

\* the trace_id arguments a caller may pass
TraceArgs == {None, Str(""), Str("t1")}

\* the request built at the top of the try body, as the n-th object created
Request(trace, n) ==
    Message(Str("coordinator"), Str(AgentName), REQUEST, req_payload, Str(req_action),
            None, trace, None, None, n)

\* dict.get(key, default) on a payload modelled as a function over string keys
DictGet(d, key, default) == IF key \in DOMAIN d THEN d[key] ELSE default

\* The exception classes of coordinator.py and the ones `except CoordinatorError` catches
CoordinatorErrorClasses == {"CoordinatorError", "AgentDelegationError", "WorkflowError"}

CatchesCoordinatorError(exc) == exc.cls \in CoordinatorErrorClasses

\* str(last_error): the message of the exception, "None" when no error was recorded
NoError == [cls |-> "None", msg |-> <<>>]

StrError(e) == IF e = NoError THEN <<"None">> ELSE e.msg

\* str(n) for the small integers that appear in messages
StrInt(n) == <<"0", "1", "2", "3", "4", "5", "6", "7", "8", "9">>[n + 1]

\* Payloads a worker may put in a RESPONSE, and in an ERROR reply
ResponsePayloads ==
    {[status |-> "success"],
     [status |-> "success", findings |-> "f1", analysis |-> "a1", report |-> "r1"],
     [status |-> "error"],
     [status |-> "failed", error |-> "boom"]}

ErrorPayloads == {[error |-> "e1"], [error |-> "e2"], [status |-> "error"]}

\* What one call of worker.execute_message can do: return a message of some
\* type, or raise (a CoordinatorError subclass, or any other exception)
WorkerReplies ==
    {[kind |-> "message", message_type |-> RESPONSE, payload |-> p] : p \in ResponsePayloads}
    \cup {[kind |-> "message", message_type |-> ERROR, payload |-> p] : p \in ErrorPayloads}
    \cup {[kind |-> "message", message_type |-> REQUEST, payload |-> [status |-> "success"]]}
    \cup {[kind |-> "raise", exc |-> [cls |-> "RuntimeError", msg |-> <<"worker crashed">>]],
          [kind |-> "raise", exc |-> [cls |-> "CoordinatorError", msg |-> <<"worker raised">>]]}

WorkerScripts == [1..MaxRetriesBound -> WorkerReplies]

\* AgentDelegationError(f"Agent {agent.name} error: {error_msg}")
AgentErrorExc(error_msg) ==
    [cls |-> "AgentDelegationError", msg |-> <<"Agent", AgentName, "error:", error_msg>>]

\* AgentDelegationError(f"Unexpected message type from agent {agent.name}: ...")
UnexpectedTypeExc(message_type) ==
    [cls |-> "AgentDelegationError",
     msg |-> <<"Unexpected message type from agent", AgentName, message_type>>]

\* AgentDelegationError(f"Failed to delegate ... after {max_retries} attempts. Last error: ...")
ExhaustedPrefix(n) == <<"Failed to delegate to agent", AgentName, "after", StrInt(n), "attempts. Last error:">>

ExhaustedExc(n, err) ==
    [cls |-> "AgentDelegationError", msg |-> ExhaustedPrefix(n) \o StrError(err)]

\* backoff_time = 2**attempt
BackoffTime_OneBased(a) == 2 ^ (a + 1)

BackoffTime(a) == 2 ^ a

\* last_error = e
RecordError_KeepFirst(prev, e) == IF prev = NoError THEN e ELSE prev

RecordError(prev, e) == e

\* an except clause that sleeps after every failed attempt
ShouldWait_Always(a, mr) == TRUE

\* whether the except clause sleeps before the next attempt
ShouldWait(a, mr) == a < mr - 1

\* The try body after agent.execute_message returned `response`:
\* what it raises, or the payload it returns
ReplyRaises(response) ==
    IF response.message_type = ERROR
    THEN AgentErrorExc(DictGet(response.payload, "error", "Unknown error"))
    ELSE UnexpectedTypeExc(response.message_type)

ReplyReturns_SuccessOnly(response) ==
    /\ response.message_type = RESPONSE
    /\ DictGet(response.payload, "status", "") = "success"

ReplyReturns(response) == response.message_type = RESPONSE

Returned(payload) == [kind |-> "return", payload |-> payload, exc |-> NoError]

Raised(exc) == [kind |-> "raise", payload |-> [status |-> "none"], exc |-> exc]

Running == [kind |-> "running", payload |-> [status |-> "none"], exc |-> NoError]

DelegateStart(w, mr, t) ==
    /\ worker = w
    /\ max_retries = mr
    /\ dpc = "idle"
    /\ attempt = 0
    /\ last_error = NoError
    /\ caught = NoError
    /\ calls = 0
    /\ waits = <<>>
    /\ outcome = Running
    /\ agent = "worker"
    /\ trace_id = t
    /\ sent = <<>>
    /\ fresh = 0
    /\ req_action = "gather_info"
    /\ req_payload = [query |-> "q"]

DelegateInit ==
    \E w \in WorkerScripts, mr \in 0..MaxRetriesBound, t \in TraceArgs : DelegateStart(w, mr, t)

\* delegate is not exercised
DelegateQuiet ==
    DelegateStart([i \in 1..MaxRetriesBound |-> Returned([status |-> "none"])], 0, None)

\* delegate(): entry, last_error = None, the for loop starts
Delegate ==
    /\ dpc = "idle"
    /\ dpc' = "loop"
    /\ attempt' = 0
    /\ last_error' = NoError
    /\ IF trace_id = None
       THEN trace_id' = Uuid(fresh + 1, "trace_id") /\ fresh' = fresh + 1
       ELSE UNCHANGED <<trace_id, fresh>>
    /\ UNCHANGED <<worker, max_retries, caught, calls, waits, outcome, agent, sent,
                   req_action, req_payload>>
    /\ UNCHANGED <<rvars, mvars, svars, avars, hvars>>

\* one pass through the try body: build the request, call the worker, classify the reply
Attempt ==
    /\ dpc = "loop"
    /\ attempt < max_retries
    /\ sent' = Append(sent, Request(trace_id, fresh + 1))
    /\ fresh' = fresh + 1
    /\ calls' = calls + 1
    /\ LET reply == worker[calls + 1] IN
       IF reply.kind = "raise"
       THEN IF CatchesCoordinatorError(reply.exc)
            THEN /\ caught' = reply.exc
                 /\ dpc' = "except"
                 /\ UNCHANGED outcome
            ELSE /\ outcome' = Raised(reply.exc)
                 /\ dpc' = "done"
                 /\ UNCHANGED caught
       ELSE IF ReplyReturns(reply)
            THEN /\ outcome' = Returned(reply.payload)
                 /\ dpc' = "done"
                 /\ UNCHANGED caught
            ELSE /\ caught' = ReplyRaises(reply)
                 /\ dpc' = "except"
                 /\ UNCHANGED outcome
    /\ UNCHANGED <<worker, max_retries, attempt, last_error, waits, agent, trace_id,
                   req_action, req_payload>>
    /\ UNCHANGED <<rvars, mvars, svars, avars, hvars>>

\* the except CoordinatorError clause: record the error, sleep unless this was
\* the last attempt, and go on to the next iteration
HandleError ==
    /\ dpc = "except"
    /\ last_error' = RecordError(last_error, caught)
    /\ waits' = IF ShouldWait(attempt, max_retries)
                THEN Append(waits, BackoffTime(attempt))
                ELSE waits
    /\ attempt' = attempt + 1
    /\ dpc' = "loop"
    /\ UNCHANGED <<worker, max_retries, caught, calls, outcome, agent, trace_id, sent, fresh,
                   req_action, req_payload>>
    /\ UNCHANGED <<rvars, mvars, svars, avars, hvars>>

\* the for loop ran out: raise AgentDelegationError with the last error
Exhausted ==
    /\ dpc = "loop"
    /\ attempt >= max_retries
    /\ outcome' = Raised(ExhaustedExc(max_retries, last_error))
    /\ dpc' = "done"
    /\ UNCHANGED <<worker, max_retries, attempt, last_error, caught, calls, waits,
                   agent, trace_id, sent, fresh, req_action, req_payload>>
    /\ UNCHANGED <<rvars, mvars, svars, avars, hvars>>

DelegateNext == Delegate \/ Attempt \/ HandleError \/ Exhausted

(***************************************************************************)
(* Coordinator.generate_report: three delegations in sequence, each with   *)
(* the default max_retries.  The values carried between phases (query,     *)
(* findings, analysis, report) are opaque texts.                           *)
(***************************************************************************)
\* delegate(..., max_retries: int = 3)
DefaultMaxRetries == 3

PhaseNames == {"research", "data", "writer"}

PhaseOrder == <<"research", "data", "writer">>

\* the phase generate_report delegates after phase ph has succeeded
PhaseAfter_WriterFirst(ph) == IF ph = "research" THEN "writer" ELSE "data"

PhaseAfter(ph) == IF ph = "research" THEN "data" ELSE "writer"

\* the action each phase delegates
PhaseAction(ph) ==
    CASE ph = "research" -> "gather_info"
      [] ph = "data" -> "analyze_trends"
      [] ph = "writer" -> "create_report"

\* the payload each phase delegates
PhasePayload(ph, findings, analysis) ==
    CASE ph = "research" -> [query |-> "q"]
      [] ph = "data" -> [findings |-> findings, query |-> "q"]
      [] ph = "writer" -> [query |-> "q", findings |-> findings, analysis |-> analysis]

\* the words each phase's WorkflowError starts with, and its default error text
PhaseLabel(ph) ==
    CASE ph = "research" -> "Research"
      [] ph = "data" -> "Data analysis"
      [] ph = "writer" -> "Report writing"

PhaseDefaultError(ph) ==
    CASE ph = "research" -> "Research failed"
      [] ph = "data" -> "Data analysis failed"
      [] ph = "writer" -> "Report writing failed"

\* WorkflowError(f"<Phase> phase failed: {error_msg}")
WorkflowErrorExc(ph, error_msg) ==
    [cls |-> "WorkflowError", msg |-> <<PhaseLabel(ph), "phase failed:", error_msg>>]

\* not (response.get("status") != "success")
PhaseSucceeded_UnlessError(response) ==
    ~("status" \in DOMAIN response /\ response.status = "error")

PhaseSucceeded(response) == "status" \in DOMAIN response /\ response.status = "success"

\* what the workers of a generate_report run may reply
ReportReplies ==
    {[kind |-> "message", message_type |-> RESPONSE,
      payload |-> [status |-> "success", findings |-> "f1", analysis |-> "a1", report |-> "r1"]],
     [kind |-> "message", message_type |-> RESPONSE, payload |-> [status |-> "error"]],
     [kind |-> "message", message_type |-> RESPONSE,
      payload |-> [status |-> "failed", error |-> "boom"]],
     [kind |-> "message", message_type |-> ERROR, payload |-> [error |-> "e1"]],
     [kind |-> "message", message_type |-> REQUEST, payload |-> [status |-> "success"]],
     [kind |-> "raise", exc |-> [cls |-> "RuntimeError", msg |-> <<"worker crashed">>]]}

ReportScripts == [1..MaxRetriesBound -> ReportReplies]

ReportRunning == [kind |-> "running", text |-> "", exc |-> NoError]

ReportReturned(text) == [kind |-> "return", text |-> text, exc |-> NoError]

ReportRaised(exc) == [kind |-> "raise", text |-> "", exc |-> exc]

NoPayload == [status |-> "none"]

\* no delegate call is active
DelegateNotCalled ==
    /\ worker = [i \in 1..MaxRetriesBound |-> Returned(NoPayload)]
    /\ max_retries = 0
    /\ dpc = "done"
    /\ attempt = 0
    /\ last_error = NoError
    /\ caught = NoError
    /\ calls = 0
    /\ waits = <<>>
    /\ outcome = Running
    /\ agent = "worker"
    /\ trace_id = None
    /\ sent = <<>>
    /\ fresh = 0
    /\ req_action = "gather_info"
    /\ req_payload = [query |-> "q"]

ReportStart(t) ==
    /\ rpc = "idle"
    /\ rtrace = t
    /\ research_findings = "[]"
    /\ data_analysis = "{}"
    /\ rcalls = [ph \in PhaseNames |-> 0]
    /\ rwaits = [ph \in PhaseNames |-> <<>>]
    /\ rsent = <<>>
    /\ rlast = [ph \in PhaseNames |-> NoPayload]
    /\ report = ReportRunning

ReportInit == DelegateNotCalled /\ \E t \in TraceArgs : ReportStart(t)

\* generate_report is not exercised
ReportQuiet == ReportStart(None)

\* self.delegate(self.<ph>, <action>, <payload>, trace_id=trace_id): the call
\* enters delegate with fresh locals
CallDelegate(ph, w, trace, findings, analysis) ==
    /\ worker' = w
    /\ max_retries' = DefaultMaxRetries
    /\ dpc' = "idle"
    /\ attempt' = 0
    /\ last_error' = NoError
    /\ caught' = NoError
    /\ calls' = 0
    /\ waits' = <<>>
    /\ outcome' = Running
    /\ agent' = ph
    /\ trace_id' = trace
    /\ sent' = <<>>
    /\ req_action' = PhaseAction(ph)
    /\ req_payload' = PhasePayload(ph, findings, analysis)

\* generate_report(): entry, trace_id generated if None, research delegated
GenerateReport ==
    /\ rpc = "idle"
    /\ IF rtrace = None
       THEN rtrace' = Uuid(fresh + 1, "trace_id") /\ fresh' = fresh + 1
       ELSE UNCHANGED <<rtrace, fresh>>
    /\ \E w \in ReportScripts :
        CallDelegate("research", w, rtrace', research_findings, data_analysis)
    /\ rpc' = "research"
    /\ UNCHANGED <<research_findings, data_analysis, rcalls, rwaits, rsent, rlast, report>>
    /\ UNCHANGED <<mvars, svars, avars, hvars>>

\* the delegation of phase ph has ended: what it did is added to the run's record
DelegateEnded(ph) ==
    /\ rpc = ph
    /\ dpc = "done"
    /\ rcalls' = [rcalls EXCEPT ![ph] = calls]
    /\ rwaits' = [rwaits EXCEPT ![ph] = waits]
    /\ rsent' = rsent \o sent
    /\ rlast' = [rlast EXCEPT ![ph] = IF outcome.kind = "return" THEN outcome.payload ELSE @]

\* delegate raised, or the response's status is not "success": generate_report raises
PhaseFails(ph) ==
    /\ report' = IF outcome.kind = "raise"
                 THEN ReportRaised(outcome.exc)
                 ELSE ReportRaised(WorkflowErrorExc(ph,
                          DictGet(outcome.payload, "error", PhaseDefaultError(ph))))
    /\ rpc' = "done"
    /\ UNCHANGED <<rtrace, research_findings, data_analysis>>
    /\ UNCHANGED dvars

PhasePassed == outcome.kind = "return" /\ PhaseSucceeded(outcome.payload)

\* research_response is back: validate, keep the findings, delegate data analysis
ResearchReturn ==
    /\ DelegateEnded("research")
    /\ IF PhasePassed
       THEN /\ research_findings' = DictGet(outcome.payload, "findings", "[]")
            /\ \E w \in ReportScripts :
                CallDelegate(PhaseAfter("research"), w, rtrace, research_findings',
                             data_analysis)
            /\ rpc' = PhaseAfter("research")
            /\ UNCHANGED <<rtrace, data_analysis, report, fresh>>
       ELSE PhaseFails("research")
    /\ UNCHANGED <<mvars, svars, avars, hvars>>

\* data_response is back: validate, keep the analysis, delegate report writing
DataReturn ==
    /\ DelegateEnded("data")
    /\ IF PhasePassed
       THEN /\ data_analysis' = DictGet(outcome.payload, "analysis", "{}")
            /\ \E w \in ReportScripts :
                CallDelegate(PhaseAfter("data"), w, rtrace, research_findings,
                             data_analysis')
            /\ rpc' = PhaseAfter("data")
            /\ UNCHANGED <<rtrace, research_findings, report, fresh>>
       ELSE PhaseFails("data")
    /\ UNCHANGED <<mvars, svars, avars, hvars>>

\* writer_response is back: validate and return the report
WriterReturn ==
    /\ DelegateEnded("writer")
    /\ IF PhasePassed
       THEN /\ report' = ReportReturned(DictGet(outcome.payload, "report", ""))
            /\ rpc' = "done"
            /\ UNCHANGED <<rtrace, research_findings, data_analysis>>
            /\ UNCHANGED dvars
       ELSE PhaseFails("writer")
    /\ UNCHANGED <<mvars, svars, avars, hvars>>

ReportNext ==
    \/ GenerateReport
    \/ Delegate
    \/ Attempt
    \/ HandleError
    \/ Exhausted
    \/ ResearchReturn
    \/ DataReturn
    \/ WriterReturn

(***************************************************************************)
(* Message (message_protocol.py) and WorkerAgent.execute_message           *)
(***************************************************************************)
NoMessage == [none |-> TRUE]

\* the outcome of a call: the object it returned, or the exception it raised
PyExc(cls, text) == [cls |-> cls, text |-> text]

MadeMessage(m) == [kind |-> "message", message |-> m, exc |-> PyExc("None", "")]

RaisedExc(exc) == [kind |-> "raise", message |-> NoMessage, exc |-> exc]

\* str(e)
StrExc(exc) == Str(exc.text)

\* payloads of the messages under test: str keys; str, int and None values
MessagePayloads ==
    {[query |-> Str("EV market")],
     [status |-> Str("success"), count |-> [int |-> 2], note |-> None],
     [status |-> Str("error"), error |-> Str("boom")]}

\* the arguments Message(...) is called with
FromAgents == {Str("coordinator"), Str("writer")}

ToAgents == {Str("research")}

ActionArgs == {None, Str("gather_info")}

ReplyArgs == {None, Str("m0")}

IdArgs == {None, Str("m1")}

TimestampArgs == {None, Str("2024-01-01T00:00:00")}

\* json.dumps / json.loads of a str, int or None value
JsonValue(v) ==
    IF v = None THEN [json |-> "null"]
    ELSE IF "int" \in DOMAIN v THEN [json |-> "number", digits |-> v.int]
    ELSE [json |-> "string", chars |-> v]

PyValue(j) ==
    CASE j.json = "null" -> None
      [] j.json = "number" -> [int |-> j.digits]
      [] j.json = "string" -> j.chars

\* json.dumps / json.loads of a dict of such values
JsonObject(d) == [json |-> "object", members |-> [k \in DOMAIN d |-> JsonValue(d[k])]]

PyDict(j) == [k \in DOMAIN j.members |-> PyValue(j.members[k])]

\* json.dumps / json.loads of the dict of a message: payload is a nested dict
JsonDumps(data) ==
    [json |-> "object",
     members |-> [k \in DOMAIN data |->
                    IF k = "payload" THEN JsonObject(data[k]) ELSE JsonValue(data[k])]]

JsonLoads(text) ==
    [k \in DOMAIN text.members |->
        IF text.members[k].json = "object"
        THEN PyDict(text.members[k])
        ELSE PyValue(text.members[k])]

\* Message.to_dict
to_dict_EnumMember(m) ==
    [message_id |-> m.message_id,
     timestamp |-> m.timestamp,
     from_agent |-> m.from_agent,
     to_agent |-> m.to_agent,
     message_type |-> Str(m.message_type),
     action |-> m.action,
     payload |-> m.payload,
     in_reply_to |-> m.in_reply_to,
     trace_id |-> m.trace_id]

to_dict(m) ==
    [message_id |-> m.message_id,
     timestamp |-> m.timestamp,
     from_agent |-> m.from_agent,
     to_agent |-> m.to_agent,
     message_type |-> Str(MessageTypeValue(m.message_type)),
     action |-> m.action,
     payload |-> m.payload,
     in_reply_to |-> m.in_reply_to,
     trace_id |-> m.trace_id]

\* Message.to_json
to_json(m) == JsonDumps(to_dict(m))

\* MessageType(value): the member with that value, ValueError when there is none
HasMember(value) == \E member \in MessageType : Str(MessageTypeValue(member)) = value

MemberOf(value) == CHOOSE member \in MessageType : Str(MessageTypeValue(member)) = value

\* Message.from_dict: the arguments of cls(...) are evaluated in order, so the
\* first absent required key raises KeyError; n-th object created
from_dict(data, n) ==
    IF "from_agent" \notin DOMAIN data THEN RaisedExc(PyExc("KeyError", "from_agent"))
    ELSE IF "to_agent" \notin DOMAIN data THEN RaisedExc(PyExc("KeyError", "to_agent"))
    ELSE IF "message_type" \notin DOMAIN data
    THEN RaisedExc(PyExc("KeyError", "message_type"))
    ELSE IF ~HasMember(data.message_type)
    THEN RaisedExc(PyExc("ValueError", "not a valid MessageType"))
    ELSE IF "payload" \notin DOMAIN data THEN RaisedExc(PyExc("KeyError", "payload"))
    ELSE MadeMessage(Message(data.from_agent, data.to_agent, MemberOf(data.message_type),
                             data.payload, DictGet(data, "action", None),
                             DictGet(data, "in_reply_to", None),
                             DictGet(data, "trace_id", None),
                             DictGet(data, "message_id", None),
                             DictGet(data, "timestamp", None), n))

\* Message.from_json
from_json(json_str, n) == from_dict(JsonLoads(json_str), n)

\* the keys a sender may leave out of the data, or a message_type it may garble
MessageFields ==
    {"message_id", "timestamp", "from_agent", "to_agent", "message_type", "action",
     "payload", "in_reply_to", "trace_id"}

RequiredFields == {"from_agent", "to_agent", "message_type", "payload"}

DroppableFields == RequiredFields \cup {"action", "trace_id"}

Without(data, dropped) == [k \in (DOMAIN data) \ dropped |-> data[k]]

\* the worker under test, and what its execute(action, payload) may do
WorkerName == Str("research")

ExecuteResults ==
    {[status |-> Str("success")], [status |-> Str("error"), error |-> Str("boom")]}

ExecuteRaises ==
    {PyExc("NotImplementedError", "Agent research must implement execute() method"),
     PyExc("ValueError", "bad payload"),
     PyExc("Exception", "")}

ExecuteOutcomes ==
    {[kind |-> "return", result |-> r, exc |-> PyExc("None", "")] : r \in ExecuteResults}
    \cup {[kind |-> "raise", result |-> NoMessage, exc |-> x] : x \in ExecuteRaises}

NotExecuted == [kind |-> "none", result |-> NoMessage, exc |-> PyExc("None", "")]

\* except Exception
ExceptionClasses ==
    {"Exception", "NotImplementedError", "ValueError", "RuntimeError", "KeyError",
     "TypeError", "AttributeError"}

CatchesException_ValueErrorOnly(exc) == exc.cls = "ValueError"

CatchesException(exc) == exc.cls \in ExceptionClasses

\* WorkerAgent.execute_message, given what execute() did; n-th object created
execute_message(request, did, n) ==
    IF did.kind = "return"
    THEN MadeMessage(Message(WorkerName, request.from_agent, RESPONSE, did.result, None,
                             request.message_id, request.trace_id, None, None, n))
    ELSE IF CatchesException(did.exc)
    THEN MadeMessage(Message(WorkerName, request.from_agent, ERROR,
                             [error |-> StrExc(did.exc)], None,
                             request.message_id, request.trace_id, None, None, n))
    ELSE RaisedExc(did.exc)

ProtocolQuiet ==
    /\ mpc = "start"
    /\ msg = NoMessage
    /\ wire = NoMessage
    /\ decoded = NoMessage
    /\ executed = NotExecuted
    /\ wreply = NoMessage
    /\ mfresh = 0

ProtocolInit == ProtocolQuiet

\* Message(...): a message is built from the caller's arguments
NewMessage ==
    /\ mpc = "start"
    /\ \E from_agent \in FromAgents, to_agent \in ToAgents, message_type \in MessageType,
          p \in MessagePayloads, a \in ActionArgs, in_reply_to \in ReplyArgs,
          trace \in TraceArgs, message_id \in IdArgs, timestamp \in TimestampArgs :
        msg' = Message(from_agent, to_agent, message_type, p, a, in_reply_to, trace,
                       message_id, timestamp, mfresh + 1)
    /\ mfresh' = mfresh + 1
    /\ mpc' = "init"
    /\ UNCHANGED <<wire, decoded, executed, wreply>>
    /\ UNCHANGED <<dvars, rvars, svars, avars, hvars>>

\* msg.to_json()
ToJson ==
    /\ mpc = "init"
    /\ wire' = to_json(msg)
    /\ mpc' = "to_json"
    /\ UNCHANGED <<msg, decoded, executed, wreply, mfresh>>
    /\ UNCHANGED <<dvars, rvars, svars, avars, hvars>>

\* Message.from_json(json_str) of the text to_json produced
FromJson ==
    /\ mpc = "to_json"
    /\ decoded' = from_json(wire, mfresh + 1)
    /\ mfresh' = mfresh + 1
    /\ mpc' = "from_json"
    /\ UNCHANGED <<msg, wire, executed, wreply>>
    /\ UNCHANGED <<dvars, rvars, svars, avars, hvars>>

\* Message.from_dict(data) of data that lacks some keys or has an unknown message_type
FromDict ==
    /\ mpc = "init"
    /\ \E dropped \in SUBSET DroppableFields, garbled \in BOOLEAN :
        LET data == Without(to_dict(msg), dropped)
        IN wire' = IF garbled /\ "message_type" \in DOMAIN data
                   THEN [data EXCEPT !["message_type"] = Str("bogus")]
                   ELSE data
    /\ decoded' = from_dict(wire', mfresh + 1)
    /\ mfresh' = mfresh + 1
    /\ mpc' = "from_dict"
    /\ UNCHANGED <<msg, executed, wreply>>
    /\ UNCHANGED <<dvars, rvars, svars, avars, hvars>>

\* worker.execute_message(msg)
ExecuteMessage ==
    /\ mpc = "init"
    /\ \E did \in ExecuteOutcomes :
        /\ executed' = did
        /\ wreply' = execute_message(msg, did, mfresh + 1)
    /\ mfresh' = mfresh + 1
    /\ mpc' = "execute_message"
    /\ UNCHANGED <<msg, wire, decoded>>
    /\ UNCHANGED <<dvars, rvars, svars, avars, hvars>>

ProtocolNext == NewMessage \/ ToJson \/ FromJson \/ FromDict \/ ExecuteMessage

(***************************************************************************)
(* SharedState: the POSIX (fcntl.flock) path.  A document is a function    *)
(* from keys to values; True is written "true".                            *)
(***************************************************************************)
Procs == {1, 2}

Keys == {"k1", "k2"}

Values == {"v1", "v2"}

\* {"_initialized": True}
Sentinel == [k \in {"_initialized"} |-> "true"]

\* the key arguments of get / set: any string, the sentinel's key included
KeyArgs == Keys \cup DOMAIN Sentinel

\* state[key] = value
DictSet_KeepExisting(d, key, value) ==
    [k \in DOMAIN d \cup {key} |-> IF k \in DOMAIN d THEN d[k] ELSE value]

DictSet(d, key, value) == [k \in DOMAIN d \cup {key} |-> IF k = key THEN value ELSE d[k]]

\* state.update(updates)
DictUpdate(d, updates) ==
    [k \in DOMAIN d \cup DOMAIN updates |-> IF k \in DOMAIN updates THEN updates[k] ELSE d[k]]

\* the mappings passed to update()
UpdateMaps == {[k \in Keys |-> "v2"], [k \in {"k2"} |-> "v1"]}

\* the length of json.dumps(d, indent=2): keys and values of the model have one
\* length each, so the length grows with the number of entries
Size(d) == Cardinality(DOMAIN d)

\* the file on disk
\* exists: the path exists; size: its length; utf8: its bytes decode as text;
\* ok: the text parses as the JSON object doc
NoFile == [exists |-> FALSE, size |-> 0, utf8 |-> TRUE, ok |-> FALSE, doc |-> Sentinel]

FileWith(d) == [exists |-> TRUE, size |-> Size(d), utf8 |-> TRUE, ok |-> TRUE, doc |-> d]

\* corrupt files an earlier crash may have left: text that is not JSON, and
\* bytes that are not text
CorruptFiles ==
    {[exists |-> TRUE, size |-> 1, utf8 |-> TRUE, ok |-> FALSE, doc |-> Sentinel],
     [exists |-> TRUE, size |-> 1, utf8 |-> FALSE, ok |-> FALSE, doc |-> Sentinel]}

\* open(state_file, "w"): creates the file or truncates it to length 0
Truncated == [exists |-> TRUE, size |-> 0, utf8 |-> TRUE, ok |-> FALSE, doc |-> Sentinel]

\* closing the file flushes the buffered text to offset 0: a file that another
\* process made longer since the open keeps its tail after the text
Flush(file, d) ==
    IF file.size <= Size(d)
    THEN FileWith(d)
    ELSE [exists |-> TRUE, size |-> file.size, utf8 |-> file.utf8, ok |-> FALSE,
          doc |-> Sentinel]

\* documents a state file may hold from an earlier run
InitialDocs == {Sentinel, DictSet(Sentinel, "k1", "v1")}

NoOp == [name |-> "none", key |-> "none", value |-> "none", updates |-> Sentinel, default |-> "none"]

Call(name, key, value, updates, default) ==
    [name |-> name, key |-> key, value |-> value, updates |-> updates, default |-> default]

NoPrev == [call |-> NoOp, fault |-> "ok"]

StateStart(file, calls_left) ==
    /\ disk = file
    /\ budget = calls_left
    /\ inherited = file
    /\ before = [p \in Procs |-> NoPrev]
    /\ lock = [p \in Procs |-> "none"]
    /\ spc = [p \in Procs |-> "new"]
    /\ op = [p \in Procs |-> NoOp]
    /\ buf = [p \in Procs |-> Sentinel]
    /\ ret = [p \in Procs |-> Sentinel]
    /\ nops = [p \in Procs |-> 0]
    /\ init_wrote = [p \in Procs |-> FALSE]
    /\ read_fault = [p \in Procs |-> "ok"]

StateInit ==
    \E file \in {NoFile} \cup {FileWith(d) : d \in InitialDocs} : StateStart(file, MaxOps)

\* one process uses the file, which an earlier run may have left corrupt
SoloInit ==
    \E file \in {NoFile} \cup {FileWith(d) : d \in InitialDocs} \cup CorruptFiles :
        StateStart(file, MaxSoloOps)

\* SharedState is not exercised
StateQuiet == StateStart(NoFile, 0)

\* __init__ / _init_state: write the sentinel document unless the file exists
Construct(p) ==
    /\ spc[p] = "new"
    /\ init_wrote' = [init_wrote EXCEPT ![p] = ~disk.exists]
    /\ op' = [op EXCEPT ![p] = Call("init", "none", "none", Sentinel, "none")]
    /\ IF disk.exists
       THEN /\ spc' = [spc EXCEPT ![p] = "idle"]
            /\ UNCHANGED buf
       ELSE /\ spc' = [spc EXCEPT ![p] = "w_open"]
            /\ buf' = [buf EXCEPT ![p] = Sentinel]
    /\ UNCHANGED <<disk, lock, ret, nops, read_fault, before, budget, inherited>>
    /\ UNCHANGED <<dvars, rvars, mvars, avars, hvars>>

\* the calls started so far, finished or not
InCall(p) == spc[p] \notin {"new", "idle"} /\ op[p].name # "init"

Started == nops[1] + nops[2] + Cardinality({p \in Procs : InCall(p)})

CanCall(p) == spc[p] = "idle" /\ Started < budget

\* get(key, default), get_all(), set(key, value), update(updates): each starts with _read()
StartCall(p, call) ==
    /\ op' = [op EXCEPT ![p] = call]
    /\ before' = [before EXCEPT ![p] = [call |-> op[p], fault |-> read_fault[p]]]

StartRead(p, call) ==
    /\ StartCall(p, call)
    /\ spc' = [spc EXCEPT ![p] = "r_open"]

Get(p) ==
    /\ CanCall(p)
    /\ \E k \in KeyArgs : StartRead(p, Call("get", k, "none", Sentinel, "default"))
    /\ UNCHANGED <<disk, lock, buf, ret, nops, init_wrote, read_fault, budget, inherited>>
    /\ UNCHANGED <<dvars, rvars, mvars, avars, hvars>>

GetAll(p) ==
    /\ CanCall(p)
    /\ StartRead(p, Call("get_all", "none", "none", Sentinel, "none"))
    /\ UNCHANGED <<disk, lock, buf, ret, nops, init_wrote, read_fault, budget, inherited>>
    /\ UNCHANGED <<dvars, rvars, mvars, avars, hvars>>

Set(p) ==
    /\ CanCall(p)
    /\ \E k \in KeyArgs, v \in Values : StartRead(p, Call("set", k, v, Sentinel, "none"))
    /\ UNCHANGED <<disk, lock, buf, ret, nops, init_wrote, read_fault, budget, inherited>>
    /\ UNCHANGED <<dvars, rvars, mvars, avars, hvars>>

Update(p) ==
    /\ CanCall(p)
    /\ \E m \in UpdateMaps : StartRead(p, Call("update", "none", "none", m, "none"))
    /\ UNCHANGED <<disk, lock, buf, ret, nops, init_wrote, read_fault, budget, inherited>>
    /\ UNCHANGED <<dvars, rvars, mvars, avars, hvars>>

\* clear() that returns without writing
Clear_NoWrite(p) ==
    /\ CanCall(p)
    /\ StartCall(p, Call("clear", "none", "none", Sentinel, "none"))
    /\ nops' = [nops EXCEPT ![p] = @ + 1]
    /\ UNCHANGED <<disk, lock, spc, buf, ret, init_wrote, read_fault, budget, inherited>>
    /\ UNCHANGED <<dvars, rvars, mvars, avars, hvars>>

\* clear(): _write({"_initialized": True})
Clear(p) ==
    /\ CanCall(p)
    /\ StartCall(p, Call("clear", "none", "none", Sentinel, "none"))
    /\ buf' = [buf EXCEPT ![p] = Sentinel]
    /\ spc' = [spc EXCEPT ![p] = "w_open"]
    /\ UNCHANGED <<disk, lock, ret, nops, init_wrote, read_fault, budget, inherited>>
    /\ UNCHANGED <<dvars, rvars, mvars, avars, hvars>>

\* what get / get_all return from the state that _read produced
ReadResult(call, state) ==
    IF call.name = "get" THEN [k \in {call.key} |-> DictGet(state, call.key, call.default)]
    ELSE state

\* what set / update hand to _write from the state that _read produced
Modified(call, state) ==
    IF call.name = "set" THEN DictSet(state, call.key, call.value)
    ELSE DictUpdate(state, call.updates)

\* the rest of the call once _read has returned `state`
AfterRead(p, state) ==
    IF op[p].name \in {"get", "get_all"}
    THEN /\ ret' = [ret EXCEPT ![p] = ReadResult(op[p], state)]
         /\ nops' = [nops EXCEPT ![p] = @ + 1]
         /\ spc' = [spc EXCEPT ![p] = "idle"]
         /\ UNCHANGED buf
    ELSE /\ buf' = [buf EXCEPT ![p] = Modified(op[p], state)]
         /\ spc' = [spc EXCEPT ![p] = "w_open"]
         /\ UNCHANGED <<ret, nops>>

\* flock: LOCK_SH waits while another process holds LOCK_EX, LOCK_EX while
\* another process holds any lock
CanLock(p, shared) ==
    \A q \in Procs \ {p} : IF shared THEN lock[q] # "ex" ELSE lock[q] = "none"

\* _read: open(state_file, "r") and flock(LOCK_SH); a missing file is
\* FileNotFoundError and _read returns the sentinel state
ReadOpen(p) ==
    /\ spc[p] = "r_open"
    /\ IF disk.exists
       THEN /\ CanLock(p, TRUE)
            /\ lock' = [lock EXCEPT ![p] = "sh"]
            /\ spc' = [spc EXCEPT ![p] = "r_load"]
            /\ UNCHANGED <<buf, ret, nops, read_fault>>
       ELSE /\ read_fault' = [read_fault EXCEPT ![p] = "missing"]
            /\ AfterRead(p, Sentinel)
            /\ UNCHANGED lock
    /\ UNCHANGED <<disk, op, init_wrote, before, budget, inherited>>
    /\ UNCHANGED <<dvars, rvars, mvars, avars, hvars>>

\* the exceptions of json.load(f) that _read turns into the sentinel state
CatchesReadError_AnyValueError(cls) == cls \in {"JSONDecodeError", "UnicodeDecodeError"}

CatchesReadError(cls) == cls \in {"FileNotFoundError", "JSONDecodeError"}

\* json.load(f): f.read() decodes the bytes (UnicodeDecodeError), then the text
\* is parsed (JSONDecodeError)
LoadError(file) ==
    IF ~file.utf8 THEN "UnicodeDecodeError"
    ELSE IF ~file.ok THEN "JSONDecodeError"
    ELSE "none"

\* _read: json.load, unlock, close; content that does not parse is
\* JSONDecodeError and _read returns the sentinel state; any other exception
\* leaves _read and the call that made it
ReadLoad(p) ==
    /\ spc[p] = "r_load"
    /\ lock' = [lock EXCEPT ![p] = "none"]
    /\ IF LoadError(disk) = "none"
       THEN /\ read_fault' = [read_fault EXCEPT ![p] = "ok"]
            /\ AfterRead(p, disk.doc)
       ELSE IF CatchesReadError(LoadError(disk))
       THEN /\ read_fault' = [read_fault EXCEPT ![p] = "corrupt"]
            /\ AfterRead(p, Sentinel)
       ELSE /\ read_fault' = [read_fault EXCEPT ![p] = LoadError(disk)]
            /\ nops' = [nops EXCEPT ![p] = @ + 1]
            /\ spc' = [spc EXCEPT ![p] = "idle"]
            /\ UNCHANGED <<buf, ret>>
    /\ UNCHANGED <<disk, op, init_wrote, before, budget, inherited>>
    /\ UNCHANGED <<dvars, rvars, mvars, avars, hvars>>

\* _write: open(state_file, "w") truncates the file before any lock is taken
WriteOpen(p) ==
    /\ spc[p] = "w_open"
    /\ disk' = Truncated
    /\ spc' = [spc EXCEPT ![p] = "w_lock"]
    /\ UNCHANGED <<lock, op, buf, ret, nops, init_wrote, read_fault, before, budget, inherited>>
    /\ UNCHANGED <<dvars, rvars, mvars, avars, hvars>>

\* _write: flock(LOCK_EX), then json.dump into the file object's buffer
WriteLock(p) ==
    /\ spc[p] = "w_lock"
    /\ CanLock(p, FALSE)
    /\ lock' = [lock EXCEPT ![p] = "ex"]
    /\ spc' = [spc EXCEPT ![p] = "w_unlock"]
    /\ UNCHANGED <<disk, op, buf, ret, nops, init_wrote, read_fault, before, budget, inherited>>
    /\ UNCHANGED <<dvars, rvars, mvars, avars, hvars>>

\* _write: the finally clause unlocks while the text is still buffered
WriteUnlock(p) ==
    /\ spc[p] = "w_unlock"
    /\ lock' = [lock EXCEPT ![p] = "none"]
    /\ spc' = [spc EXCEPT ![p] = "w_close"]
    /\ UNCHANGED <<disk, op, buf, ret, nops, init_wrote, read_fault, before, budget, inherited>>
    /\ UNCHANGED <<dvars, rvars, mvars, avars, hvars>>

\* _write: leaving the with block closes the file, which flushes the buffer
WriteClose(p) ==
    /\ spc[p] = "w_close"
    /\ disk' = Flush(disk, buf[p])
    /\ spc' = [spc EXCEPT ![p] = "idle"]
    /\ nops' = [nops EXCEPT ![p] = IF op[p].name = "init" THEN @ ELSE @ + 1]
    /\ UNCHANGED <<lock, op, buf, ret, init_wrote, read_fault, before, budget, inherited>>
    /\ UNCHANGED <<dvars, rvars, mvars, avars, hvars>>

StateStep(p) ==
    \/ Construct(p)
    \/ Get(p)
    \/ GetAll(p)
    \/ Set(p)
    \/ Update(p)
    \/ Clear(p)
    \/ ReadOpen(p)
    \/ ReadLoad(p)
    \/ WriteOpen(p)
    \/ WriteLock(p)
    \/ WriteUnlock(p)
    \/ WriteClose(p)

StateNext == \E p \in Procs : StateStep(p)

\* process 1 alone
SoloNext == StateStep(1)

(***************************************************************************)
(* OVETestHarness.  A piece of Python text is modelled by what the checks  *)
(* read from it: whether it is blank, whether it compiles, and, for code,  *)
(* how many functions it defines, where its functions carry annotations,   *)
(* and whether any has a docstring.                                        *)
(***************************************************************************)
\* where a function can carry an annotation: its return type (func.returns), a
\* parameter of func.args.args not named self / cls, a parameter of
\* func.args.args named self / cls, and the other parameters (positional-only,
\* keyword-only, *args, **kwargs)
HintPlaces == {"returns", "args", "self", "other"}

\* the places _check_type_hints looks at
CheckedHintPlaces == {"returns", "args"}

CodeText(blank, syntax_ok, functions, hints, docstrings) ==
    [blank |-> blank, syntax_ok |-> syntax_ok, functions |-> functions,
     hints |-> hints, docstrings |-> docstrings]

TestText(blank, syntax_ok) == [blank |-> blank, syntax_ok |-> syntax_ok]

\* observe(): code, tests (file, timestamp and code_length are not read by the checks)
Observe(impl) == [code |-> impl.code, tests |-> impl.tests]

Check(name, passed) == [name |-> name, passed |-> passed]

\* _check_syntax: compile(code, "<string>", "exec")
CheckSyntax(text) == Check("syntax", text.syntax_ok)

\* _check_has_functions: passed either way
CheckHasFunctions(code) == Check("has_functions", TRUE)

\* _check_type_hints
CheckTypeHints(code) ==
    Check("type_hints",
          IF code.functions = 0 THEN TRUE ELSE code.hints \cap CheckedHintPlaces # {})

\* _check_docstrings
CheckDocstrings(code) == Check("docstrings", IF code.functions = 0 THEN TRUE ELSE code.docstrings)

\* validate() that goes on to the other checks after a syntax error
Validate_NoShortCircuit(observation) ==
    LET code == observation.code IN
    IF code.blank
    THEN [passed |-> FALSE, checks |-> <<Check("has_code", FALSE)>>]
    ELSE [passed |-> CheckSyntax(code).passed /\ CheckTypeHints(code).passed,
          checks |-> <<CheckSyntax(code), CheckHasFunctions(code),
                       CheckTypeHints(code), CheckDocstrings(code)>>]

\* validate()
Validate(observation) ==
    LET code == observation.code IN
    IF code.blank
    THEN [passed |-> FALSE, checks |-> <<Check("has_code", FALSE)>>]
    ELSE IF ~CheckSyntax(code).passed
    THEN [passed |-> FALSE, checks |-> <<CheckSyntax(code)>>]
    ELSE [passed |-> CheckTypeHints(code).passed,
          checks |-> <<CheckSyntax(code), CheckHasFunctions(code),
                       CheckTypeHints(code), CheckDocstrings(code)>>]

\* evaluate() that looks at the tests whatever the validation said
Evaluate_IgnoresValidation(observation, validation) ==
    IF observation.tests.blank
    THEN [passed |-> TRUE, reason |-> "No tests to run"]
    ELSE IF ~CheckSyntax(observation.tests).passed
    THEN [passed |-> FALSE, reason |-> "Test syntax error"]
    ELSE [passed |-> TRUE, reason |-> "Test syntax valid (execution not implemented)"]

\* evaluate()
Evaluate(observation, validation) ==
    IF ~validation.passed
    THEN [passed |-> FALSE, reason |-> "Validation failed, skipping evaluation"]
    ELSE IF observation.tests.blank
    THEN [passed |-> TRUE, reason |-> "No tests to run"]
    ELSE IF ~CheckSyntax(observation.tests).passed
    THEN [passed |-> FALSE, reason |-> "Test syntax error"]
    ELSE [passed |-> TRUE, reason |-> "Test syntax valid (execution not implemented)"]

\* run: overall_passed = validation["passed"] and evaluation["passed"]
OverallPassed_ValidationOnly(validation, evaluation) == validation.passed

OverallPassed(validation, evaluation) == validation.passed /\ evaluation.passed

\* run()
Run(impl) ==
    LET observation == Observe(impl)
        validation == Validate(observation)
        evaluation == Evaluate(observation, validation)
    IN [observation |-> observation, validation |-> validation, evaluation |-> evaluation,
        overall_passed |-> OverallPassed(validation, evaluation)]

\* the code strings given to the harness: blank, not compilable, without
\* functions, and with functions
CodeInputs ==
    {CodeText(TRUE, TRUE, 0, {}, FALSE),
     CodeText(FALSE, FALSE, 0, {}, FALSE),
     CodeText(FALSE, TRUE, 0, {}, FALSE)}
    \cup {CodeText(FALSE, TRUE, n, h, d) :
            n \in 1..MaxFunctions, h \in SUBSET HintPlaces, d \in BOOLEAN}

\* the test strings: blank (or absent), compilable, not compilable
TestInputs == {TestText(TRUE, TRUE), TestText(FALSE, TRUE), TestText(FALSE, FALSE)}

Implementations == [code : CodeInputs, tests : TestInputs]

\* nothing computed yet
NoPhase == [passed |-> FALSE, checks |-> <<>>, reason |-> "none"]

HarnessStart(impl, at) ==
    /\ hpc = at
    /\ h_impl = impl
    /\ h_obs = Observe(impl)
    /\ h_val = NoPhase
    /\ h_eval = NoPhase
    /\ h_out = [overall_passed |-> FALSE]

HarnessInit == \E impl \in Implementations : HarnessStart(impl, "observe")

\* the harness is not exercised on its own
HarnessQuiet ==
    HarnessStart([code |-> CodeText(TRUE, TRUE, 0, {}, FALSE), tests |-> TestText(TRUE, TRUE)],
                 "idle")

\* run: observation = self.observe(implementation)
ObservePhase ==
    /\ hpc = "observe"
    /\ h_obs' = Observe(h_impl)
    /\ hpc' = "validate"
    /\ UNCHANGED <<h_impl, h_val, h_eval, h_out>>
    /\ UNCHANGED <<dvars, rvars, mvars, svars, avars>>

\* run: validation = self.validate(observation)
ValidatePhase ==
    /\ hpc = "validate"
    /\ h_val' = Validate(h_obs)
    /\ hpc' = "evaluate"
    /\ UNCHANGED <<h_impl, h_obs, h_eval, h_out>>
    /\ UNCHANGED <<dvars, rvars, mvars, svars, avars>>

\* run: evaluation = self.evaluate(observation, validation)
EvaluatePhase ==
    /\ hpc = "evaluate"
    /\ h_eval' = Evaluate(h_obs, h_val)
    /\ hpc' = "return"
    /\ UNCHANGED <<h_impl, h_obs, h_val, h_out>>
    /\ UNCHANGED <<dvars, rvars, mvars, svars, avars>>

\* run: the returned dict
RunReturn ==
    /\ hpc = "return"
    /\ h_out' = [observation |-> h_obs, validation |-> h_val, evaluation |-> h_eval,
                 overall_passed |-> OverallPassed(h_val, h_eval)]
    /\ hpc' = "done"
    /\ UNCHANGED <<h_impl, h_obs, h_val, h_eval>>
    /\ UNCHANGED <<dvars, rvars, mvars, svars, avars>>

HarnessNext == ObservePhase \/ ValidatePhase \/ EvaluatePhase \/ RunReturn

(***************************************************************************)
(* ArchitectBuilderCoordinator.  The planner, the builder and the reviewer *)
(* are LLM roles: what they return is chosen nondeterministically.  Python *)
(* strings of this component are records, so that str(dict) and a feedback *)
(* string can be compared.                                                 *)
(***************************************************************************)
MAX_RETRIES == 3

NoValidation == [passed |-> TRUE, checks |-> <<>>]

\* a string literal or a string the reviewer wrote
Text(t) == [kind |-> "text", text |-> t, of |-> NoValidation]

\* str(d) of a validation dict
StrOf(validation) == [kind |-> "repr", text |-> "", of |-> validation]

\* what builder.implement may return: the code and the tests of the artifact
GoodCode == CodeText(FALSE, TRUE, 1, {"args"}, TRUE)

NoTests == TestText(TRUE, TRUE)

BuilderOutputs ==
    {[code |-> GoodCode, tests |-> TestText(FALSE, TRUE)],
     [code |-> GoodCode, tests |-> TestText(FALSE, FALSE)],
     [code |-> CodeText(FALSE, FALSE, 0, {}, FALSE), tests |-> NoTests],
     [code |-> CodeText(FALSE, TRUE, 1, {}, TRUE), tests |-> NoTests]}

NoImplementation == [code |-> CodeText(TRUE, TRUE, 0, {}, FALSE), tests |-> NoTests]

\* what architect.validate may return
Reviews ==
    {[approved |-> TRUE, feedback |-> Text("ok")],
     [approved |-> FALSE, feedback |-> Text("f1")],
     [approved |-> FALSE, feedback |-> Text("f2")],
     [issues |-> Text("Parse error")]}

NoReview == [none |-> TRUE]

\* validation.get("approved", False)
Approved(validation) == DictGet(validation, "approved", FALSE)

\* validation.get("feedback", "")
Feedback(validation) == DictGet(validation, "feedback", Text(""))

\* the plan of n tasks; task i has id i and no failure context yet
NewPlan(n) == [i \in 1..n |-> [k \in {"id"} |-> i]]

NoResult == [task_id |-> 0, success |-> FALSE, attempts |-> 0, last_error |-> Text("")]

\* the dict returned on approval
SuccessResult_ZeroBased(task, impl, a) ==
    [task_id |-> DictGet(task, "id", 0), success |-> TRUE, implementation |-> impl,
     attempts |-> a]

SuccessResult(task, impl, a) ==
    [task_id |-> DictGet(task, "id", 0), success |-> TRUE, implementation |-> impl,
     attempts |-> a + 1]

\* the dict returned when all retries are exhausted
FailureResult(task) ==
    [task_id |-> DictGet(task, "id", 0), success |-> FALSE, attempts |-> MAX_RETRIES,
     last_error |-> DictGet(task, "previous_errors",
                            DictGet(task, "previous_feedback", Text("Unknown error")))]

\* task["previous_errors"] = str(ove_result.get("validation", {}))
RecordOveErrors_KeepFirst(task, ove) ==
    IF "previous_errors" \in DOMAIN task THEN task
    ELSE DictSet(task, "previous_errors", StrOf(ove.validation))

RecordOveErrors(task, ove) == DictSet(task, "previous_errors", StrOf(ove.validation))

\* the feedback stored under the key of the harness errors
RecordFeedback_AsErrors(task, validation) ==
    DictSet(task, "previous_errors", Feedback(validation))

\* task["previous_feedback"] = validation.get("feedback", "")
RecordFeedback(task, validation) == DictSet(task, "previous_feedback", Feedback(validation))

Succeeded(r) == r.success

\* _create_summary (the request string is carried through unchanged)
CreateSummary_AnyPlan(tasks, rs) ==
    LET failed == {i \in 1..Len(rs) : ~Succeeded(rs[i])} IN
    [total_tasks |-> Len(tasks),
     successful_tasks |-> Len(rs) - Cardinality(failed),
     failed_tasks |-> Cardinality(failed),
     results |-> rs,
     overall_success |-> Cardinality(failed) = 0]

CreateSummary(tasks, rs) ==
    LET successful == {i \in 1..Len(rs) : Succeeded(rs[i])}
        failed == {i \in 1..Len(rs) : ~Succeeded(rs[i])}
    IN [total_tasks |-> Len(tasks),
        successful_tasks |-> Cardinality(successful),
        failed_tasks |-> Cardinality(failed),
        results |-> rs,
        overall_success |-> Cardinality(failed) = 0 /\ Len(tasks) > 0]

NoSummary ==
    [total_tasks |-> 0, successful_tasks |-> 0, failed_tasks |-> 0, results |-> <<>>,
     overall_success |-> FALSE]

TaskIndexes == 1..MaxPlan

ArchInit ==
    /\ apc = "start"
    /\ plan = <<>>
    /\ idx = 0
    /\ task_attempt = 0
    /\ implementation = NoImplementation
    /\ ove_result = Run(NoImplementation)
    /\ result = NoResult
    /\ results = <<>>
    /\ summary = NoSummary
    /\ builder_calls = [i \in TaskIndexes |-> 0]
    /\ harness_calls = [i \in TaskIndexes |-> 0]
    /\ review_calls = [i \in TaskIndexes |-> 0]
    /\ tlog = <<>>

\* process_request: architect.plan(request); an empty plan returns the summary at once
ProcessRequest ==
    /\ apc = "start"
    /\ \E n \in 0..MaxPlan :
        /\ plan' = NewPlan(n)
        /\ IF n = 0
           THEN /\ summary' = CreateSummary(<<>>, <<>>)
                /\ apc' = "done"
                /\ UNCHANGED idx
           ELSE /\ idx' = 1
                /\ apc' = "implement"
                /\ UNCHANGED summary
    /\ results' = <<>>
    /\ task_attempt' = 0
    /\ UNCHANGED <<implementation, ove_result, result, builder_calls, harness_calls,
                   review_calls, tlog>>
    /\ UNCHANGED <<dvars, rvars, mvars, svars, hvars>>

\* _process_task: implementation = self.builder.implement(task)
Implement ==
    /\ apc = "implement"
    /\ task_attempt < MAX_RETRIES
    /\ \E impl \in BuilderOutputs : implementation' = impl
    /\ builder_calls' = [builder_calls EXCEPT ![idx] = @ + 1]
    /\ apc' = "harness"
    /\ UNCHANGED <<plan, idx, task_attempt, ove_result, result, results, summary,
                   harness_calls, review_calls, tlog>>
    /\ UNCHANGED <<dvars, rvars, mvars, svars, hvars>>

\* _process_task: ove_result = self.harness.run(implementation); on failure the
\* errors are recorded on the task and the next attempt starts
HarnessRun ==
    /\ apc = "harness"
    /\ ove_result' = Run(implementation)
    /\ harness_calls' = [harness_calls EXCEPT ![idx] = @ + 1]
    /\ IF Run(implementation).overall_passed
       THEN /\ apc' = "review"
            /\ UNCHANGED <<plan, task_attempt, tlog>>
       ELSE /\ plan' = [plan EXCEPT ![idx] = RecordOveErrors(@, Run(implementation))]
            /\ task_attempt' = task_attempt + 1
            /\ tlog' = Append(tlog, [impl |-> implementation, review |-> NoReview])
            /\ apc' = "implement"
    /\ UNCHANGED <<idx, implementation, result, results, summary, builder_calls, review_calls>>
    /\ UNCHANGED <<dvars, rvars, mvars, svars, hvars>>

\* _process_task: validation = self.architect.validate(task, code); approval
\* returns the success dict, rejection records the feedback and retries
Review ==
    /\ apc = "review"
    /\ review_calls' = [review_calls EXCEPT ![idx] = @ + 1]
    /\ \E validation \in Reviews :
        /\ tlog' = Append(tlog, [impl |-> implementation, review |-> validation])
        /\ IF Approved(validation)
           THEN /\ result' = SuccessResult(plan[idx], implementation, task_attempt)
                /\ apc' = "collect"
                /\ UNCHANGED <<plan, task_attempt>>
           ELSE /\ plan' = [plan EXCEPT ![idx] = RecordFeedback(@, validation)]
                /\ task_attempt' = task_attempt + 1
                /\ apc' = "implement"
                /\ UNCHANGED result
    /\ UNCHANGED <<idx, implementation, ove_result, results, summary, builder_calls,
                   harness_calls>>
    /\ UNCHANGED <<dvars, rvars, mvars, svars, hvars>>

\* _process_task: the for loop ran out, return the failure dict
TaskExhausted ==
    /\ apc = "implement"
    /\ task_attempt >= MAX_RETRIES
    /\ result' = FailureResult(plan[idx])
    /\ apc' = "collect"
    /\ UNCHANGED <<plan, idx, task_attempt, implementation, ove_result, results, summary,
                   builder_calls, harness_calls, review_calls, tlog>>
    /\ UNCHANGED <<dvars, rvars, mvars, svars, hvars>>

\* a loop over the plan that ends at the first failed task
Collect_StopOnFailure ==
    /\ apc = "collect"
    /\ results' = Append(results, result)
    /\ result' = NoResult
    /\ implementation' = NoImplementation
    /\ ove_result' = Run(NoImplementation)
    /\ task_attempt' = 0
    /\ tlog' = <<>>
    /\ IF idx < Len(plan) /\ result.success
       THEN /\ idx' = idx + 1
            /\ apc' = "implement"
       ELSE /\ apc' = "summary"
            /\ UNCHANGED idx
    /\ UNCHANGED <<plan, summary, builder_calls, harness_calls, review_calls>>
    /\ UNCHANGED <<dvars, rvars, mvars, svars, hvars>>

\* process_request: results.append(result), then the next task of the plan;
\* the locals of the _process_task call that returned are gone
Collect ==
    /\ apc = "collect"
    /\ results' = Append(results, result)
    /\ result' = NoResult
    /\ implementation' = NoImplementation
    /\ ove_result' = Run(NoImplementation)
    /\ task_attempt' = 0
    /\ tlog' = <<>>
    /\ IF idx < Len(plan)
       THEN /\ idx' = idx + 1
            /\ apc' = "implement"
       ELSE /\ apc' = "summary"
            /\ UNCHANGED idx
    /\ UNCHANGED <<plan, summary, builder_calls, harness_calls, review_calls>>
    /\ UNCHANGED <<dvars, rvars, mvars, svars, hvars>>

\* process_request: return self._create_summary(request, plan, results)
Summarize ==
    /\ apc = "summary"
    /\ summary' = CreateSummary(plan, results)
    /\ apc' = "done"
    /\ UNCHANGED <<plan, idx, task_attempt, implementation, ove_result, result, results,
                   builder_calls, harness_calls, review_calls, tlog>>
    /\ UNCHANGED <<dvars, rvars, mvars, svars, hvars>>

ArchNext ==
    \/ ProcessRequest
    \/ Implement
    \/ HarnessRun
    \/ Review
    \/ TaskExhausted
    \/ Collect
    \/ Summarize

(***************************************************************************)
(* Specifications                                                          *)
(***************************************************************************)
InitDelegate == DelegateInit /\ ReportQuiet /\ ProtocolQuiet /\ StateQuiet /\ ArchInit /\ HarnessQuiet

InitReport == ReportInit /\ ProtocolQuiet /\ StateQuiet /\ ArchInit /\ HarnessQuiet

InitState == StateInit /\ DelegateQuiet /\ ReportQuiet /\ ProtocolQuiet /\ ArchInit /\ HarnessQuiet

InitSolo == SoloInit /\ DelegateQuiet /\ ReportQuiet /\ ProtocolQuiet /\ ArchInit /\ HarnessQuiet

InitArch == ArchInit /\ DelegateQuiet /\ ReportQuiet /\ ProtocolQuiet /\ StateQuiet /\ HarnessQuiet

InitHarness ==
    /\ HarnessInit
    /\ DelegateQuiet /\ ReportQuiet /\ ProtocolQuiet /\ StateQuiet /\ ArchInit

SpecDelegate == InitDelegate /\ [][DelegateNext]_vars

SpecReport == InitReport /\ [][ReportNext]_vars

InitProtocol == ProtocolInit /\ DelegateQuiet /\ ReportQuiet /\ StateQuiet /\ ArchInit /\ HarnessQuiet

SpecProtocol == InitProtocol /\ [][ProtocolNext]_vars

SpecState == InitState /\ [][StateNext]_vars

SpecSolo == InitSolo /\ [][SoloNext]_vars

SpecArch == InitArch /\ [][ArchNext]_vars

SpecHarness == InitHarness /\ [][HarnessNext]_vars

(***************************************************************************)
(* Properties of Coordinator.delegate                                      *)
(***************************************************************************)
IsReply(r, message_type) == r.kind = "message" /\ r.message_type = message_type

IsRaise(r) == r.kind = "raise"

\* the waits 2^0, ..., 2^(k-1)
BackoffSeq(k) == [i \in 1..k |-> 2 ^ (i - 1)]

\* the worker replies ERROR on its first k calls and RESPONSE on call k+1
FailsThenSucceeds(k) ==
    /\ \A i \in 1..k : IsReply(worker[i], ERROR)
    /\ IsReply(worker[k + 1], RESPONSE)

\* C1: a worker that replies ERROR k times and then RESPONSE, with
\* k < max_retries, makes delegate return that RESPONSE's payload after
\* exactly k+1 invocations and the waits 1, 2, ..., 2^(k-1) seconds.
C1_FailThenSucceed ==
    \A k \in 0..(MaxRetriesBound - 1) :
        (dpc = "done" /\ k < max_retries /\ FailsThenSucceeds(k))
            => /\ outcome = Returned(worker[k + 1].payload)
               /\ calls = k + 1
               /\ waits = BackoffSeq(k)

C1_Witness ==
    /\ dpc = "done"
    /\ max_retries = 3
    /\ FailsThenSucceeds(2)
    /\ calls = 3
    /\ waits = <<1, 2>>
    /\ outcome.kind = "return"

\* C2: a worker whose execute_message always raises, with max_retries = 2,
\* makes delegate fail with AgentDelegationError after exactly 2 invocations.
C2_RaisingWorkerRetried ==
    (dpc = "done" /\ max_retries = 2 /\ \A i \in 1..MaxRetriesBound : IsRaise(worker[i]))
        => /\ outcome.kind = "raise"
           /\ outcome.exc.cls = "AgentDelegationError"
           /\ calls = 2

\* C3: a worker that replies ERROR on every call makes delegate with
\* max_retries = n >= 1 invoke it exactly n times and raise an
\* AgentDelegationError that embeds the error description of the n-th reply.
C3_LastErrorEmbedded ==
    (dpc = "done" /\ max_retries >= 1
        /\ \A i \in 1..MaxRetriesBound : IsReply(worker[i], ERROR))
        => /\ calls = max_retries
           /\ outcome.kind = "raise"
           /\ outcome.exc.cls = "AgentDelegationError"
           /\ SubSeq(outcome.exc.msg, 1, Len(ExhaustedPrefix(max_retries)))
                = ExhaustedPrefix(max_retries)
           /\ outcome.exc.msg[Len(outcome.exc.msg)]
                = DictGet(worker[max_retries].payload, "error", "Unknown error")

C3_Witness ==
    /\ dpc = "done"
    /\ max_retries = 2
    /\ \A i \in 1..MaxRetriesBound : IsReply(worker[i], ERROR)
    /\ worker[1].payload = [error |-> "e1"]
    /\ worker[2].payload = [error |-> "e2"]
    /\ calls = 2
    /\ outcome.exc.msg[Len(outcome.exc.msg)] = "e2"

\* C4: a reply whose type is neither RESPONSE nor ERROR makes delegate fail
\* at once with a delegation error: one invocation, no wait, no retry.
C4_ProtocolViolationNotRetried ==
    (dpc = "done" /\ max_retries >= 1 /\ IsReply(worker[1], REQUEST))
        => /\ calls = 1
           /\ waits = <<>>
           /\ outcome.kind = "raise"
           /\ outcome.exc.cls = "AgentDelegationError"

(***************************************************************************)
(* Properties of SharedState                                               *)
(***************************************************************************)
AllIdle == \A p \in Procs : spc[p] = "idle"

\* the file existed before either object was constructed
NoConstructorWrote == \A p \in Procs : ~init_wrote[p]

\* C5: two processes that concurrently call set on disjoint keys never lose
\* either write: once both calls have returned, the stored document holds
\* both keys with the values written.
C5_NoLostWrite ==
    \A k1, k2 \in Keys, v1, v2 \in Values :
        (/\ k1 # k2
         /\ AllIdle
         /\ NoConstructorWrote
         /\ nops = [p \in Procs |-> 1]
         /\ op[1] = Call("set", k1, v1, Sentinel, "none")
         /\ op[2] = Call("set", k2, v2, Sentinel, "none"))
            => /\ disk.ok
               /\ DictGet(disk.doc, k1, "absent") = v1
               /\ DictGet(disk.doc, k2, "absent") = v2

\* C6: a reader running concurrently with a writer (set / update / clear)
\* never finds the file empty, truncated or partially written, so _read never
\* falls back to the sentinel state because the content does not parse.
C6_ReaderSeesCompleteDoc ==
    NoConstructorWrote => \A p \in Procs : read_fault[p] # "corrupt"

(***************************************************************************)
(* Properties of Coordinator.generate_report                               *)
(***************************************************************************)
\* the REQUEST messages of the run so far, in the order they were sent
AllSent == IF rpc \in PhaseNames THEN rsent \o sent ELSE rsent

\* number of execute_message invocations of the worker of phase ph so far
CallsOf(ph) == Cardinality({i \in 1..Len(AllSent) : AllSent[i].to_agent = Str(ph)})

PhaseIndex(ph) == CHOOSE i \in 1..3 : PhaseOrder[i] = ph

LaterPhases(ph) == {q \in PhaseNames : PhaseIndex(q) > PhaseIndex(ph)}

\* phase ph got a RESPONSE whose payload status is not "success"
ReportedFailure(ph) ==
    /\ rlast[ph] # NoPayload
    /\ DictGet(rlast[ph], "status", "") # "success"

ReportedSuccess(ph) == DictGet(rlast[ph], "status", "") = "success"

LastReply == worker[calls]

IsFailureResponse(r) ==
    /\ IsReply(r, RESPONSE)
    /\ DictGet(r.payload, "status", "") # "success"

InPhase == rpc \in PhaseNames \/ (rpc = "done" /\ agent \in PhaseNames)

\* C12 as stated: a worker that replies RESPONSE with a status other than
\* success was invoked exactly once for that phase, with no backoff wait.
C12_FailedPhaseInvokedOnce ==
    \A ph \in PhaseNames :
        ReportedFailure(ph) => rcalls[ph] = 1 /\ rwaits[ph] = <<>>

\* C12 amended: a RESPONSE with a status other than success ends the
\* delegation at once: it is returned, the worker is not invoked again and no
\* wait follows it; the only invocations and waits of the phase are those of
\* the ERROR replies before it, and none when it is the worker's first reply.
C12_BusinessFailureNotRetried ==
    /\ []((InPhase /\ calls >= 1 /\ IsFailureResponse(LastReply))
            => /\ dpc = "done"
               /\ outcome = Returned(LastReply.payload)
               /\ \A i \in 1..(calls - 1) : ~IsReply(worker[i], RESPONSE)
               /\ waits = BackoffSeq(calls - 1)
               /\ IsFailureResponse(worker[1]) => calls = 1 /\ waits = <<>>)
    /\ [][(InPhase /\ calls >= 1 /\ IsFailureResponse(LastReply))
            => /\ UNCHANGED <<calls, waits, sent>>
               /\ rpc' = "done"
               /\ report'.exc.cls = "WorkflowError"]_vars

C12_Witness ==
    /\ rpc = "done"
    /\ agent = "data"
    /\ calls = 2
    /\ IsReply(worker[1], ERROR)
    /\ IsFailureResponse(worker[2])
    /\ rcalls["data"] = 2
    /\ rwaits["data"] = <<1>>
    /\ report.exc.cls = "WorkflowError"

\* the recipients of the requests sent so far
Recipients == [i \in 1..Len(AllSent) |-> AllSent[i].to_agent.str]

C14_OneTraceId ==
    rpc # "idle" => \A i \in 1..Len(AllSent) : AllSent[i].trace_id = rtrace

(***************************************************************************)
(* Properties of Message and WorkerAgent.execute_message                   *)
(***************************************************************************)
\* C15: every message execute_message returns, RESPONSE or ERROR, has
\* in_reply_to equal to the request's message_id, the request's trace_id, and
\* is addressed to the request's from_agent.
C15_ReplyLinksToRequest ==
    (mpc = "execute_message" /\ wreply.kind = "message")
        => /\ wreply.message.message_type \in {RESPONSE, ERROR}
           /\ wreply.message.in_reply_to = msg.message_id
           /\ wreply.message.trace_id = msg.trace_id
           /\ wreply.message.to_agent = msg.from_agent

C15_Witness ==
    /\ mpc = "execute_message"
    /\ msg.message_type = REQUEST
    /\ msg.message_id = Uuid(1, "message_id")
    /\ msg.trace_id = Str("t1")
    /\ msg.from_agent = Str("coordinator")
    /\ wreply.kind = "message"
    /\ wreply.message.message_type = ERROR
    /\ wreply.message.in_reply_to = Uuid(1, "message_id")
    /\ wreply.message.trace_id = Str("t1")
    /\ wreply.message.to_agent = Str("coordinator")

C17_RoundTrip ==
    mpc = "from_json"
        => /\ decoded.kind = "message"
           /\ DOMAIN decoded.message = MessageFields
           /\ \A f \in MessageFields : decoded.message[f] = msg[f]

C17_Witness ==
    /\ mpc = "from_json"
    /\ msg.message_type = ERROR
    /\ msg.action = None
    /\ msg.in_reply_to = None
    /\ msg.payload = [status |-> Str("success"), count |-> [int |-> 2], note |-> None]
    /\ decoded = MadeMessage(msg)

\* C18: deserializing data that lacks from_agent, to_agent, message_type or
\* payload fails with a DecodeError and produces no Message.
C18_MissingFieldDecodeError ==
    (mpc = "from_dict" /\ RequiredFields \ DOMAIN wire # {})
        => /\ decoded.kind = "raise"
           /\ decoded.message = NoMessage
           /\ decoded.exc.cls = "DecodeError"

(***************************************************************************)
(* Properties of SharedState used by one process                           *)
(***************************************************************************)
\* process 1's call `name` has returned or raised, and nothing was started since
Finished(name) == spc[1] = "idle" /\ op[1].name = name

HoldsSentinel(file) ==
    /\ file.exists
    /\ LoadError(file) = "none"
    /\ DictGet(file.doc, "_initialized", "absent") = "true"

\* C21: after any sequence of construction, set, update and clear calls on a
\* state directory this object created, the persisted document is a top-level
\* object that contains the sentinel key _initialized with value true.
C21_SentinelPersisted ==
    (spc[1] = "idle" /\ init_wrote[1]) => HoldsSentinel(disk)

(***************************************************************************)
(* Properties of SharedState across restarts                               *)
(***************************************************************************)
\* the calls process q has started
StartedBy(q) == nops[q] + (IF InCall(q) THEN 1 ELSE 0)

\* every call q has started so far leaves key k as it is
LeavesKey(q, k) ==
    /\ StartedBy(q) <= 1
    /\ \/ op[q].name \in {"none", "init", "get", "get_all"}
       \/ op[q].name = "set" /\ op[q].key # k
       \/ op[q].name = "update" /\ k \notin DOMAIN op[q].updates

\* C22: shared state persists across restarts: a process that constructs a
\* SharedState over a state file holding key k and then calls get(k) is
\* returned the value the file held, also while another process constructs
\* or writes other keys at the same time.
C22_KeysSurviveRestart ==
    \A p \in Procs : \A k \in Keys :
        (/\ inherited.exists /\ LoadError(inherited) = "none"
         /\ k \in DOMAIN inherited.doc
         /\ spc[p] = "idle" /\ op[p] = Call("get", k, "none", Sentinel, "default")
         /\ before[p].call.name = "init"
         /\ \A q \in Procs \ {p} : LeavesKey(q, k))
            => ret[p] = [j \in {k} |-> inherited.doc[k]]

\* C23: after clear(), get_all() returns exactly the sentinel state
\* {_initialized: true}: every key set before the clear is gone, and get(k, d)
\* returns what that state gives for k, which is d for each of those keys.
C23_ClearResets ==
    (spc[1] = "idle" /\ before[1].call.name = "clear")
        => /\ op[1].name = "get_all" => read_fault[1] = "ok" /\ ret[1] = Sentinel
           /\ op[1].name = "get" =>
                /\ read_fault[1] = "ok"
                /\ ret[1] = [k \in {op[1].key} |-> DictGet(Sentinel, op[1].key, op[1].default)]
                /\ op[1].key \in Keys => ret[1][op[1].key] = op[1].default

C23_Witness ==
    /\ inherited = FileWith(DictSet(Sentinel, "k1", "v1"))
    /\ nops[1] = 2
    /\ before[1].call.name = "clear"
    /\ Finished("get")
    /\ ret[1] = [k \in {"k1"} |-> "default"]

(***************************************************************************)
(* Properties of OVETestHarness                                            *)
(***************************************************************************)
Validated == hpc \in {"evaluate", "return", "done"}

Evaluated == hpc \in {"return", "done"}

CheckNames(validation) == [i \in 1..Len(validation.checks) |-> validation.checks[i].name]

\* C24: for every code input (blank code aside, which has_code rejects before
\* any check), validate returns passed = true if and only if the code's syntax
\* check passes and the code defines no function or at least one function has a
\* type-annotated parameter (self and cls aside) or return type.
C24_ValidatePassedIff ==
    (Validated /\ ~h_obs.code.blank)
        => (h_val.passed <=>
                /\ h_obs.code.syntax_ok
                /\ h_obs.code.functions = 0 \/ h_obs.code.hints \ {"self"} # {})

\* C25: when the code has a syntax error, validate returns passed = false and
\* its checks list holds the failed syntax check only; when the syntax check
\* passes, the checks are syntax, has_functions, type_hints, docstrings in
\* that order.
C25_SyntaxShortCircuit ==
    (Validated /\ ~h_obs.code.blank)
        => IF h_obs.code.syntax_ok
           THEN /\ CheckNames(h_val) = <<"syntax", "has_functions", "type_hints", "docstrings">>
                /\ h_val.checks[1].passed
           ELSE /\ ~h_val.passed
                /\ h_val.checks = <<Check("syntax", FALSE)>>

C25_Witness ==
    /\ hpc = "done"
    /\ ~h_impl.code.syntax_ok
    /\ h_out.validation = [passed |-> FALSE, checks |-> <<Check("syntax", FALSE)>>]

\* C26: evaluate returns passed = false, whatever the tests are, whenever
\* validation.passed is false; when validation passed it returns passed = true
\* if the tests are blank, and otherwise passed = true exactly when the test
\* code compiles.
C26_Evaluate ==
    Evaluated
        => IF ~h_val.passed
           THEN /\ ~h_eval.passed
                /\ h_eval.reason = "Validation failed, skipping evaluation"
           ELSE IF h_obs.tests.blank
           THEN h_eval.passed
           ELSE h_eval.passed <=> h_obs.tests.syntax_ok

C26_Witness ==
    /\ hpc = "done"
    /\ ~h_val.passed
    /\ ~h_obs.tests.blank /\ h_obs.tests.syntax_ok
    /\ ~h_eval.passed

\* C27: run applies observe, validate and evaluate in that order, each to the
\* output of the one before, and returns overall_passed = validation.passed AND
\* evaluation.passed; overall_passed is false whenever validation failed,
\* whatever the tests.
C27_RunComposes ==
    /\ hpc = "evaluate" => h_eval = NoPhase
    /\ hpc = "validate" => h_val = NoPhase /\ h_eval = NoPhase
    /\ hpc = "done"
        => /\ h_out.observation = Observe(h_impl)
           /\ h_out.validation = Validate(h_out.observation)
           /\ h_out.evaluation = Evaluate(h_out.observation, h_out.validation)
           /\ h_out.overall_passed <=> (h_out.validation.passed /\ h_out.evaluation.passed)
           /\ ~h_out.validation.passed => ~h_out.overall_passed

C27_Witness ==
    /\ hpc = "done"
    /\ h_out.validation.passed
    /\ ~h_out.evaluation.passed
    /\ ~h_out.overall_passed

(***************************************************************************)
(* Properties of ArchitectBuilderCoordinator                               *)
(***************************************************************************)
\* the harness passed on the artifact of a logged attempt
HarnessPassed(entry) == Run(entry.impl).overall_passed

\* the task at index i returned a success dict
TaskSucceeded(i) ==
    \/ apc = "collect" /\ idx = i /\ result.success
    \/ i <= Len(results) /\ results[i].success

ResultOf(i) == IF i <= Len(results) THEN results[i] ELSE result

\* C7: a task stops at the first attempt in which the harness passes and the
\* reviewer approves: its result has success = true and attempts equal to the
\* number of builder.implement calls, and afterwards the builder, the harness
\* and the reviewer are never invoked again for that task.
C7_StopsAtFirstSuccess ==
    /\ [](\A i \in TaskIndexes :
            TaskSucceeded(i) => /\ ResultOf(i).attempts = builder_calls[i]
                                /\ ResultOf(i).attempts = harness_calls[i])
    /\ []((apc = "collect" /\ result.success)
            => /\ Len(tlog) = result.attempts
               /\ HarnessPassed(tlog[Len(tlog)])
               /\ Approved(tlog[Len(tlog)].review)
               /\ \A j \in 1..(Len(tlog) - 1) : ~Approved(tlog[j].review))
    /\ [](apc \in {"implement", "harness", "review"}
            => \A j \in 1..Len(tlog) : ~Approved(tlog[j].review))
    /\ [][\A i \in TaskIndexes :
            TaskSucceeded(i) => /\ builder_calls'[i] = builder_calls[i]
                                /\ harness_calls'[i] = harness_calls[i]
                                /\ review_calls'[i] = review_calls[i]]_vars

C7_Witness ==
    /\ apc = "implement"
    /\ idx = 2
    /\ builder_calls[2] = 1
    /\ results[1].success
    /\ results[1].attempts = 2
    /\ builder_calls[1] = 2
    /\ review_calls[1] = 1

\* C8: a task whose harness run fails on every attempt ends exhausted after
\* exactly MAX_RETRIES = 3 attempts (builder invoked 3 times, reviewer never):
\* success = false, attempts = 3, last_error = the validation result of the
\* third attempt; and attempts <= MAX_RETRIES in every result.
C8_HarnessNeverPasses ==
    /\ (apc = "collect" /\ \A j \in 1..Len(tlog) : ~HarnessPassed(tlog[j]))
        => /\ Len(tlog) = MAX_RETRIES
           /\ builder_calls[idx] = MAX_RETRIES
           /\ review_calls[idx] = 0
           /\ ~result.success
           /\ result.attempts = MAX_RETRIES
           /\ result.last_error = StrOf(Validate(Observe(tlog[MAX_RETRIES].impl)))
    /\ apc = "collect" => result.attempts <= MAX_RETRIES
    /\ \A i \in 1..Len(results) : results[i].attempts <= MAX_RETRIES

C8_Witness ==
    /\ apc = "collect"
    /\ Len(tlog) = 3
    /\ \A j \in 1..3 : ~HarnessPassed(tlog[j])
    /\ Validate(Observe(tlog[2].impl)) # Validate(Observe(tlog[3].impl))
    /\ result.attempts = 3
    /\ result.last_error = StrOf(Validate(Observe(tlog[3].impl)))

\* the error or feedback that a logged attempt recorded on the task
Recorded(entry) ==
    IF entry.review = NoReview
    THEN StrOf(Validate(Observe(entry.impl)))
    ELSE Feedback(entry.review)

\* C9: for every exhausted task, last_error is the error or feedback recorded
\* by the last attempt, whatever mix of harness failures and rejections
\* occurred.
C9_LastErrorIsLastRecorded ==
    (apc = "collect" /\ ~result.success)
        => result.last_error = Recorded(tlog[Len(tlog)])

\* C10: the summary has overall_success = true exactly when no task failed and
\* the plan has at least one task; an empty plan gives total_tasks = 0 and
\* overall_success = false without invoking the builder or the harness.
C10_OverallSuccess ==
    apc = "done"
        => /\ summary.overall_success
                = (Len(plan) >= 1 /\ \A i \in 1..Len(results) : results[i].success)
           /\ Len(plan) = 0
                => /\ summary.total_tasks = 0
                   /\ ~summary.overall_success
                   /\ \A i \in TaskIndexes : builder_calls[i] = 0 /\ harness_calls[i] = 0

C10_Witness ==
    /\ apc = "done"
    /\ Len(plan) = 0
    /\ summary.total_tasks = 0
    /\ ~summary.overall_success

\* the builder, the harness, the reviewer is invoked in this step
BuilderInvoked == builder_calls' # builder_calls

HarnessInvoked == harness_calls' # harness_calls

ReviewerInvoked == review_calls' # review_calls

WaitsBetweenAttempts ==
    /\ Len(waits) <= calls
    /\ Len(waits) = calls /\ calls >= 1 => dpc = "loop" /\ attempt < max_retries

\* the wait after failed attempt i (zero-based) lasts 2^i seconds
WaitsDouble == \A i \in 1..Len(waits) : waits[i] = 2 ^ (i - 1)

\* C29 as stated: in every run of delegate a wait happens only between two
\* consecutive attempts and lasts 2^i seconds after failed attempt i, so the
\* number of waits is always the number of worker invocations minus one, and
\* the worker is invoked at most max_retries times.
C29_WaitsAreCallsMinusOne ==
    /\ WaitsBetweenAttempts
    /\ WaitsDouble
    /\ calls <= max_retries
    /\ dpc = "done" => Len(waits) = calls - 1

\* C29: in every run of delegate a wait happens only between two consecutive
\* attempts and lasts 2^i seconds after failed attempt i; no wait follows the
\* final or a successful attempt, so a run that invoked the worker made one
\* wait fewer than invocations, a run with max_retries = 0 makes neither an
\* invocation nor a wait, and the worker is invoked at most max_retries times.
C29_BackoffBetweenAttempts ==
    /\ WaitsBetweenAttempts
    /\ WaitsDouble
    /\ calls <= max_retries
    /\ dpc = "done"
        => IF calls >= 1
           THEN Len(waits) = calls - 1
           ELSE max_retries = 0 /\ waits = <<>>

C29_Witness ==
    /\ dpc = "done"
    /\ max_retries = 3
    /\ calls = 3
    /\ waits = <<1, 2>>
    /\ outcome.kind = "raise"

(***************************************************************************)
(* Properties of process_request over the whole plan                       *)
(***************************************************************************)
\* the tasks _process_task has returned for are the first ones of the plan, in order
HandledInOrder ==
    /\ Len(results) <= Len(plan)
    /\ \A i \in 1..Len(results) : results[i].task_id = plan[i]["id"]
    /\ apc \in {"implement", "harness", "review", "collect"} => Len(results) = idx - 1
    /\ \A i \in TaskIndexes : builder_calls[i] >= 1 => i <= Len(results) + 1

\* C30: process_request handles every task of a non-empty plan exactly once,
\* in plan order, and an exhausted task does not stop the later tasks from
\* being attempted; the summary satisfies
\* len(results) = total_tasks = successful_tasks + failed_tasks.
C30_EveryTaskHandledOnce ==
    /\ HandledInOrder
    /\ apc = "done"
        => /\ Len(summary.results) = Len(plan)
           /\ summary.total_tasks = Len(summary.results)
           /\ summary.total_tasks = summary.successful_tasks + summary.failed_tasks
           /\ \A i \in 1..Len(plan) :
                /\ summary.results[i].task_id = plan[i]["id"]
                /\ builder_calls[i] >= 1
                /\ builder_calls[i] = summary.results[i].attempts

C30_Witness ==
    /\ apc = "done"
    /\ Len(plan) = 2
    /\ ~summary.results[1].success
    /\ summary.results[2].success
    /\ summary.total_tasks = 2
    /\ summary.successful_tasks = 1
    /\ summary.failed_tasks = 1

====
